---- MODULE Spec2Model ----
(***************************************************************************)
(* A model of fluxion/integrate.py: the equation check, the Euler and RK4  *)
(* steppers with their interpolation, the sampling of scheduled events and *)
(* the integrate() loop.                                                   *)
(*                                                                         *)
(* Numbers are exact rationals <<n, d>> (d > 0, lowest terms), so that     *)
(* the arithmetic of the steppers is computed as the code writes it, not   *)
(* abstracted.  A field array is a tuple of rationals, one per grid point, *)
(* and the array operations are elementwise.                               *)
(***************************************************************************)
EXTENDS Integers, Sequences, FiniteSets, TLC

(***************************************************************************)
(* Bounds of the model.                                                    *)
(***************************************************************************)
\* the largest number of step() calls explored on a free-standing stepper
MaxSteps == 3
\* the largest length of one sampler's due-value sequence
MaxLen == 2

(***************************************************************************)
(* Exact rational arithmetic (the scalar arithmetic of the code).          *)
(***************************************************************************)
Abs(n) == IF n < 0 THEN -n ELSE n

RECURSIVE GCD(_, _)
GCD(a, b) == IF b = 0 THEN a ELSE GCD(b, a % b)

\* the rational n/d in lowest terms with a positive denominator (d # 0)
Norm(n, d) ==
    LET g == GCD(Abs(n), Abs(d))
        s == IF d < 0 THEN -1 ELSE 1
    IN  <<(s * n) \div g, (s * d) \div g>>

R(n) == <<n, 1>>

\* over the least common denominator, which keeps the intermediate sums small
RAdd(a, b) ==
    LET g == GCD(a[2], b[2])
    IN  Norm(a[1] * (b[2] \div g) + b[1] * (a[2] \div g), (a[2] \div g) * b[2])
RSub(a, b) == RAdd(a, <<-b[1], b[2]>>)
\* cross-cancelled before multiplying, which keeps the intermediate products small
RMul(a, b) ==
    LET g1 == GCD(Abs(a[1]), b[2])
        g2 == GCD(Abs(b[1]), a[2])
    IN  Norm((a[1] \div g1) * (b[1] \div g2), (a[2] \div g2) * (b[2] \div g1))
\* b # 0
RDiv(a, b) == RMul(a, Norm(b[2], b[1]))
RLe(a, b) == RSub(a, b)[1] <= 0
RLt(a, b) == RSub(a, b)[1] < 0

(***************************************************************************)
(* Elementwise array arithmetic (numpy broadcasting of the code).          *)
(***************************************************************************)
VAdd(a, b) == [i \in DOMAIN a |-> RAdd(a[i], b[i])]
VSub(a, b) == [i \in DOMAIN a |-> RSub(a[i], b[i])]
\* scalar * array
VScale(r, a) == [i \in DOMAIN a |-> RMul(r, a[i])]
\* array / integer
VDivInt(a, n) == [i \in DOMAIN a |-> RDiv(a[i], R(n))]

(***************************************************************************)
(* The grid of the one transverse dimension x of the unknown field, and    *)
(* the right-hand sides the model integrates.                              *)
(***************************************************************************)
xGrid == <<R(0), R(1)>>

\* CallableExpr.__init__: the compiled right-hand side keeps the expression
\* and the symbol of the propagation dimension it substitutes
CallableExpr(expr, ufield, pdim) == [expr |-> expr, ufield |-> ufield, pdim |-> pdim]

\* CallableExpr.__call__ for a right-hand side without differentials: the
\* unknown field is replaced by the array, the propagation dimension by the
\* value, and the expression is evaluated to an array.
call(func, field_arr, pdim_value) ==
    CASE func.expr = "zero"    -> [i \in DOMAIN field_arr |-> R(0)]
      [] func.expr = "one"     -> [i \in DOMAIN field_arr |-> R(1)]
      [] func.expr = func.pdim -> [i \in DOMAIN field_arr |-> pdim_value]
      [] func.expr = func.ufield -> field_arr
      [] func.expr = "x"       -> xGrid

(***************************************************************************)
(* The steppers.  A stepper is a record                                    *)
(*   [kind, step, func, pdim_prev, pdim, field_prev, field]                *)
(* where step is params.step and func the right-hand side it evaluates.    *)
(***************************************************************************)
\* a bug: the previous field starts as an array of zeros
initialize_zero_prev(kind, step, pdim_start, initial_field, func) ==
    [kind |-> kind, step |-> step, func |-> func,
     pdim_prev |-> pdim_start, pdim |-> pdim_start,
     field_prev |-> [i \in DOMAIN initial_field |-> R(0)], field |-> initial_field]

\* _EulerStepper.__init__ and _RK4Stepper.__init__ (identical bodies)
initialize(kind, step, pdim_start, initial_field, func) ==
    [kind |-> kind, step |-> step, func |-> func,
     pdim_prev |-> pdim_start, pdim |-> pdim_start,
     field_prev |-> initial_field, field |-> initial_field]

\* the (field, pdim) arguments of the calls of func made by _EulerStepper.step
Euler_calls(s) == << <<s.field, s.pdim>> >>

\* a bug: the coordinate is moved back by the step
Euler_step_backwards(s) ==
    LET new_field == VAdd(s.field, VScale(s.step, call(s.func, s.field, s.pdim)))
    IN  [s EXCEPT !.pdim = RSub(s.pdim, s.step),
                  !.field_prev = s.field,
                  !.field = new_field]

\* a bug: the derivative is taken at the end of the step
Euler_step_at_end(s) ==
    LET new_field == VAdd(s.field, VScale(s.step, call(s.func, s.field,
                                                       RAdd(s.pdim, s.step))))
    IN  [s EXCEPT !.pdim = RAdd(s.pdim, s.step),
                  !.field_prev = s.field,
                  !.field = new_field]

\* _EulerStepper.step: pdim_prev is not assigned
Euler_step(s) ==
    LET new_field == VAdd(s.field, VScale(s.step, call(s.func, s.field, s.pdim)))
    IN  [s EXCEPT !.pdim = RAdd(s.pdim, s.step),
                  !.field_prev = s.field,
                  !.field = new_field]

RK4_k1(s) == VScale(s.step, call(s.func, s.field, s.pdim))
RK4_k2(s) == VScale(s.step, call(s.func, VAdd(s.field, VDivInt(RK4_k1(s), 2)),
                                         RAdd(s.pdim, RDiv(s.step, R(2)))))
\* a bug: the third stage starts from k1 instead of k2
RK4_k3_from_k1(s) == VScale(s.step, call(s.func, VAdd(s.field, VDivInt(RK4_k1(s), 2)),
                                         RAdd(s.pdim, RDiv(s.step, R(2)))))
RK4_k3(s) == VScale(s.step, call(s.func, VAdd(s.field, VDivInt(RK4_k2(s), 2)),
                                         RAdd(s.pdim, RDiv(s.step, R(2)))))
RK4_k4(s) == VScale(s.step, call(s.func, VAdd(s.field, RK4_k3(s)),
                                         RAdd(s.pdim, s.step)))

\* the (field, pdim) arguments of the calls of func made by _RK4Stepper.step
RK4_calls(s) ==
    << <<s.field, s.pdim>>,
       <<VAdd(s.field, VDivInt(RK4_k1(s), 2)), RAdd(s.pdim, RDiv(s.step, R(2)))>>,
       <<VAdd(s.field, VDivInt(RK4_k2(s), 2)), RAdd(s.pdim, RDiv(s.step, R(2)))>>,
       <<VAdd(s.field, RK4_k3(s)), RAdd(s.pdim, s.step)>> >>

\* _RK4Stepper.step: pdim_prev is not assigned
RK4_step(s) ==
    LET new_field == VAdd(VAdd(VAdd(VAdd(s.field, VDivInt(RK4_k1(s), 6)),
                                    VDivInt(RK4_k2(s), 3)),
                               VDivInt(RK4_k3(s), 3)),
                          VDivInt(RK4_k4(s), 6))
    IN  [s EXCEPT !.pdim = RAdd(s.pdim, s.step),
                  !.field_prev = s.field,
                  !.field = new_field]

\* the outcome of a call: the exception it raises, or the value it returns
Raise(kind) == [raised |-> kind, value |-> <<>>]
Return(v) == [raised |-> "none", value |-> v]

\* a bug: the assertion checks the upper end of the range only
InRange_upper(s, p) == RLe(p, s.pdim)

\* the assertion opening both interpolate_at methods
InRange(s, p) == RLe(s.pdim_prev, p) /\ RLe(p, s.pdim)

\* a bug: the fraction is taken over the step size, not over pdim - pdim_prev
Euler_interpolate_at_by_step(s, p) ==
    IF ~(RLe(s.pdim_prev, p) /\ RLe(p, s.pdim)) THEN Raise("AssertionError")
    ELSE IF s.pdim_prev = s.pdim THEN Return(s.field)
    ELSE Return(VAdd(s.field_prev,
                     VScale(RDiv(RSub(p, s.pdim_prev), s.step),
                            VSub(s.field, s.field_prev))))

\* _EulerStepper.interpolate_at
Euler_interpolate_at(s, p) ==
    IF ~InRange(s, p) THEN Raise("AssertionError")
    ELSE IF s.pdim_prev = s.pdim THEN Return(s.field)
    ELSE Return(VAdd(s.field_prev,
                     VScale(RDiv(RSub(p, s.pdim_prev), RSub(s.pdim, s.pdim_prev)),
                            VSub(s.field, s.field_prev))))

\* _RK4Stepper.interpolate_at
RK4_interpolate_at(s, p) ==
    IF ~InRange(s, p) THEN Raise("AssertionError")
    ELSE IF s.pdim_prev = s.pdim THEN Return(s.field)
    ELSE LET h == RSub(s.pdim, s.pdim_prev)
             t == RDiv(RSub(p, s.pdim_prev), h)
             f == s.field
             fp == s.field_prev
         IN  Return(VAdd(VAdd(VScale(RSub(R(1), t), fp), VScale(t, f)),
                         VScale(RMul(t, RSub(t, R(1))),
                                VAdd(VAdd(VScale(RSub(R(1), RMul(R(2), t)), VSub(f, fp)),
                                          VScale(RMul(RSub(t, R(1)), h), fp)),
                                     VScale(RMul(t, h), f)))))

\* dispatch on the stepper's class
step_of(s) == IF s.kind = "Euler" THEN Euler_step(s) ELSE RK4_step(s)
calls_of(s) == IF s.kind = "Euler" THEN Euler_calls(s) ELSE RK4_calls(s)
interpolate_at(s, p) ==
    IF s.kind = "Euler" THEN Euler_interpolate_at(s, p) ELSE RK4_interpolate_at(s, p)

(***************************************************************************)
(* The symbols of the equations.  F and H are unknown fields, G a known    *)
(* field, p and q propagation dimensions, x and y transverse dimensions.   *)
(***************************************************************************)
class(sym) ==
    CASE sym \in {"F", "H"} -> "UnknownField"
      [] sym = "G"          -> "Field"
      [] sym \in {"p", "q"} -> "PropagationDimension"
      [] sym \in {"x", "y"} -> "TransverseDimension"
      [] OTHER              -> "Number"

\* field.dimensions
dimensions(sym) ==
    CASE sym = "F" -> <<"p", "x">>
      [] sym = "H" -> <<"q", "x">>
      [] sym = "G" -> <<"p", "x">>
      [] OTHER     -> <<>>

Range(seq) == {seq[i] : i \in DOMAIN seq}

\* used_variables(rhs) of the symbolic layer: the symbols of each category that
\* the expression references; the transverse category is present only when
\* the expression references a transverse dimension
used_variables(rhs) ==
    [propagation_dimensions |-> IF class(rhs) = "PropagationDimension" THEN {rhs} ELSE {},
     has_transverse_dimensions |-> class(rhs) = "TransverseDimension",
     transverse_dimensions |-> IF class(rhs) = "TransverseDimension" THEN {rhs} ELSE {},
     differentials |-> {}]

\* a bug: the transverse dimensions of the right-hand side are not checked
check_equation_no_transverse(e) ==
    LET lhs == e.lhs
        rhs == e.rhs
    IN  IF lhs.node # "Differential" THEN Raise("AssertionError")
        ELSE IF Len(lhs.args) # 2 THEN Raise("ValueError")
        ELSE LET field_ == lhs.args[1]
                 pdimension == lhs.args[2]
                 vs == used_variables(rhs)
             IN  IF class(field_) # "UnknownField" THEN Raise("AssertionError")
                 ELSE IF class(pdimension) # "PropagationDimension"
                      THEN Raise("AssertionError")
                 ELSE IF ~(vs.propagation_dimensions \subseteq {pdimension})
                      THEN Raise("AssertionError")
                 ELSE Return(<<field_, pdimension, vs>>)

\* check_equation: the statements of the function in order, each assert or
\* unpacking raising its own exception
check_equation(e) ==
    LET lhs == e.lhs
        rhs == e.rhs
    IN  IF lhs.node # "Differential" THEN Raise("AssertionError")
        ELSE IF Len(lhs.args) # 2 THEN Raise("ValueError")
        ELSE LET field_ == lhs.args[1]
                 pdimension == lhs.args[2]
                 vs == used_variables(rhs)
             IN  IF class(field_) # "UnknownField" THEN Raise("AssertionError")
                 ELSE IF class(pdimension) # "PropagationDimension"
                      THEN Raise("AssertionError")
                 ELSE IF ~(vs.propagation_dimensions \subseteq {pdimension})
                      THEN Raise("AssertionError")
                 ELSE IF ~(~vs.has_transverse_dimensions
                           \/ vs.transverse_dimensions \subseteq Range(dimensions(field_)))
                      THEN Raise("AssertionError")
                 ELSE Return(<<field_, pdimension, vs>>)

(***************************************************************************)
(* The event scheduler (tools.Sequence): a mapping from a key to the       *)
(* due values still pending for it.                                        *)
(***************************************************************************)
RECURSIVE SortSet(_)
SortSet(S) ==
    IF S = {} THEN <<>>
    ELSE LET m == CHOOSE m \in S : \A o \in S : RLe(m, o)
         IN  <<m>> \o SortSet(S \ {m})

Sequence(sequences) == sequences

IsDue(v, p) == RLe(v, p)

\* the events of pop_events_until(p): one (value, keys) group for every pending
\* value at or before p, in ascending order of the value
pop_events(pending, p) ==
    LET due(k) == {v \in Range(pending[k]) : IsDue(v, p)}
        values == SortSet(UNION {due(k) : k \in DOMAIN pending})
    IN  [i \in DOMAIN values |->
            <<values[i], {k \in DOMAIN pending : values[i] \in due(k)}>>]

\* what pop_events_until(p) leaves pending
pop_rest(pending, p) ==
    LET keep(v) == ~IsDue(v, p)
    IN  [k \in DOMAIN pending |-> SelectSeq(pending[k], keep)]

empty(pending) == \A k \in DOMAIN pending : pending[k] = <<>>

(***************************************************************************)
(* sample(): interpolates at every event and hands the field to the        *)
(* samplers of the event's keys.  st is [results, log, raised].            *)
(***************************************************************************)
\* sample_field, the sampler of every key
sample_field(field_, pdim) == field_

LogEntry(op, key, pdim, field_) == [op |-> op, key |-> key, pdim |-> pdim, field |-> field_]

\* a bug: the sample is recorded without its value of the propagation dimension
sample_key_no_pvalue(st, key, interp_field, pdim_val) ==
    LET result == sample_field(interp_field, pdim_val)
    IN  [st EXCEPT
            !.results[key].mean = Append(@, result),
            !.log = Append(@, LogEntry("sampler", key, pdim_val, interp_field))]

\* the body of the loop over the keys of one event
sample_key(st, key, interp_field, pdim_val) ==
    LET result == sample_field(interp_field, pdim_val)
    IN  [st EXCEPT
            !.results[key].pvalue = Append(@, pdim_val),
            !.results[key].mean = Append(@, result),
            !.log = Append(@, LogEntry("sampler", key, pdim_val, interp_field))]

\* a bug: the loop over the keys of an event ends after its first key
sample_keys_first(st, keys, interp_field, pdim_val) ==
    IF keys = {} THEN st
    ELSE sample_key(st, CHOOSE k \in keys : TRUE, interp_field, pdim_val)

RECURSIVE sample_keys(_, _, _, _)
sample_keys(st, keys, interp_field, pdim_val) ==
    IF keys = {} THEN st
    ELSE LET key == CHOOSE k \in keys : TRUE
         IN  sample_keys(sample_key(st, key, interp_field, pdim_val),
                         keys \ {key}, interp_field, pdim_val)

\* a bug: the field is interpolated anew for every key of an event
RECURSIVE sample_keys_interpolating(_, _, _, _)
sample_keys_interpolating(st, s, keys, pdim_val) ==
    IF keys = {} THEN st
    ELSE LET key == CHOOSE k \in keys : TRUE
             interp == interpolate_at(s, pdim_val)
             logged == [st EXCEPT !.log = Append(@, LogEntry("interpolate_at", "", pdim_val,
                                                             interp.value))]
         IN  IF interp.raised # "none"
             THEN [logged EXCEPT !.raised = interp.raised]
             ELSE sample_keys_interpolating(sample_key(logged, key, interp.value, pdim_val),
                                            s, keys \ {key}, pdim_val)

RECURSIVE sample_per_key(_, _, _)
sample_per_key(st, s, evs) ==
    IF evs = <<>> THEN st
    ELSE LET done == sample_keys_interpolating(st, s, evs[1][2], evs[1][1])
         IN  IF done.raised # "none" THEN done ELSE sample_per_key(done, s, Tail(evs))

\* the loop over the events; an interpolation that raises ends it
RECURSIVE sample(_, _, _)
sample(st, s, evs) ==
    IF evs = <<>> THEN st
    ELSE LET pdim_val == evs[1][1]
             keys == evs[1][2]
             interp == interpolate_at(s, pdim_val)
             logged == [st EXCEPT !.log = Append(@, LogEntry("interpolate_at", "", pdim_val,
                                                             interp.value))]
         IN  IF interp.raised # "none"
             THEN [logged EXCEPT !.raised = interp.raised]
             ELSE sample(sample_keys(logged, keys, interp.value, pdim_val), s, Tail(evs))

(***************************************************************************)
(* State.                                                                  *)
(***************************************************************************)
VARIABLES
    stepper,        \* the stepper object
    last_op,        \* the last operation applied to the stepper
    ret,            \* what the last interpolate_at call returned or raised
    calls,          \* the (field, pdim) arguments func was called with in the last step()
    nsteps,         \* the number of step() calls so far
    pc,             \* the position of integrate()
    eq,             \* integrate's arguments
    initial_field,
    pdim_start,
    samplers,
    seq,            \* the scheduler's pending due values
    events,         \* initial_samples / to_sample
    results,
    raised,         \* the exception integrate() ended with, or "none"
    log,            \* the interpolations and sampler calls of sample(), in order
    default_samplers,   \* the mapping object that is the default of samplers
    by_default,     \* whether the call passed no samplers (samplers is the default object)
    called_before   \* whether integrate() was called before this call

vars == <<stepper, last_op, ret, calls, nsteps, pc, eq, initial_field, pdim_start,
          samplers, seq, events, results, raised, log, default_samplers, by_default,
          called_before>>

stepper_vars == <<stepper, last_op, ret, calls, nsteps>>
caller_vars == <<default_samplers, by_default, called_before>>
integrate_vars == <<pc, eq, initial_field, pdim_start, samplers, seq, events, results,
                    raised, log, default_samplers, by_default, called_before>>

NoStepper == initialize("none", R(0), R(0), <<>>, CallableExpr("zero", "F", "p"))
NoEquation == [lhs |-> [node |-> "Symbol", args |-> <<>>], rhs |-> "zero"]
EmptyMap == [k \in {} |-> <<>>]

(***************************************************************************)
(* A free-standing stepper: EulerStepper(step).initialize(...) or          *)
(* RK4Stepper(step).initialize(...), then any calls of step() and          *)
(* interpolate_at().                                                       *)
(***************************************************************************)
StepSizes == {R(0), R(2)}
StartFields == {<<R(0), R(0)>>, <<R(1), R(2)>>}
StepperRhs == {"zero", "one", "p", "F", "x"}
\* the coordinates interpolate_at is asked for: the half-integers around the
\* interval the stepper can cover
Coordinates == {Norm(n, 2) : n \in (-2)..(4 * MaxSteps + 4)}
\* the coordinates a stepper is started at
StartCoordinates == {R(0), R(1)}

InitStepper ==
    /\ \E kind \in {"Euler", "RK4"}, h \in StepSizes, p0 \in StartCoordinates,
          f0 \in StartFields, rhs \in StepperRhs :
          /\ stepper = initialize(kind, h, p0, f0, CallableExpr(rhs, "F", "p"))
          /\ initial_field = f0
          /\ pdim_start = p0
    /\ last_op = "initialize"
    /\ ret = Return(<<>>) @@ [arg |-> R(0)]
    /\ calls = <<>>
    /\ nsteps = 0
    /\ pc = "stepper"
    /\ eq = NoEquation
    /\ samplers = EmptyMap
    /\ seq = EmptyMap
    /\ events = <<>>
    /\ results = EmptyMap
    /\ raised = "none"
    /\ log = <<>>
    /\ default_samplers = EmptyMap
    /\ by_default = FALSE
    /\ called_before = FALSE

\* stepper.step()
Step ==
    /\ pc = "stepper"
    /\ nsteps < MaxSteps
    /\ stepper' = step_of(stepper)
    /\ calls' = calls_of(stepper)
    /\ last_op' = "step"
    /\ nsteps' = nsteps + 1
    /\ UNCHANGED <<ret>>
    /\ UNCHANGED integrate_vars

\* stepper.interpolate_at(p)
InterpolateAt ==
    /\ pc = "stepper"
    /\ \E p \in Coordinates :
          /\ ret' = [interpolate_at(stepper, p) EXCEPT !.raised = @] @@ [arg |-> p]
    /\ last_op' = "interpolate_at"
    /\ UNCHANGED <<stepper, calls, nsteps>>
    /\ UNCHANGED integrate_vars

NextStepper == Step \/ InterpolateAt

SpecStepper == InitStepper /\ [][NextStepper]_vars

(***************************************************************************)
(* integrate(eq, initial_field, pdim_start, samplers).                     *)
(***************************************************************************)
Differential(args) == [node |-> "Differential", args |-> args]

LeftSides ==
    {[node |-> "Symbol", args |-> <<"F">>],
     Differential(<<"F", "p">>), Differential(<<"H", "q">>), Differential(<<"F", "q">>),
     Differential(<<"G", "p">>), Differential(<<"F", "x">>),
     Differential(<<"F", "p", "p">>)}
RightSides == {"zero", "one", "p", "q", "x", "y"}
Equations == [lhs : LeftSides, rhs : RightSides]

Keys == {"a", "b"}
\* due values before, at and after pdim_start = 0: inside the first step, at
\* its end and inside the second step
DueValues == {Norm(-1, 100), R(0), Norm(1, 200), Norm(1, 50), Norm(3, 100)}
\* the strictly increasing due-value sequences
Schedules ==
    {s \in UNION {[1..n -> DueValues] : n \in 0..MaxLen} :
        \A i \in 1..(Len(s) - 1) : RLt(s[i], s[i + 1])}
\* samplers: key -> (sampler function, due-value sequence)
SamplerArgs ==
    UNION {[K -> {<<"sample_field", sch>> : sch \in Schedules}] : K \in SUBSET Keys}

\* RK4Stepper(step=0.02)
IntegrateStep == Norm(2, 100)

\* before integrate() is called
Init ==
    /\ stepper = NoStepper
    /\ last_op = "none"
    /\ ret = Return(<<>>) @@ [arg |-> R(0)]
    /\ calls = <<>>
    /\ nsteps = 0
    /\ pc = "idle"
    /\ eq = NoEquation
    /\ initial_field = <<>>
    /\ pdim_start = R(0)
    /\ samplers = EmptyMap
    /\ seq = EmptyMap
    /\ events = <<>>
    /\ results = EmptyMap
    /\ raised = "none"
    /\ log = <<>>
    /\ default_samplers = EmptyMap
    /\ by_default = FALSE
    /\ called_before = FALSE

\* the call integrate(eq, initial_field, pdim_start, samplers=samplers), or the
\* call integrate(eq, initial_field, pdim_start), whose samplers is the default
\* object
Call ==
    /\ pc = "idle"
    /\ eq' \in Equations
    /\ initial_field' \in StartFields
    /\ pdim_start' = R(0)
    /\ \/ samplers' \in SamplerArgs /\ by_default' = FALSE
       \/ samplers' = default_samplers /\ by_default' = TRUE
    /\ pc' = "check"
    /\ UNCHANGED <<seq, events, results, raised, log, default_samplers, called_before>>
    /\ UNCHANGED stepper_vars

\* a bug: the scheduler is built and popped before the equation is checked
CheckEquation_after_pop ==
    /\ pc = "check"
    /\ LET checked == check_equation(eq)
       IN  IF checked.raised # "none"
           THEN /\ raised' = checked.raised
                /\ pc' = "raised"
           ELSE /\ pc' = "setup"
                /\ UNCHANGED raised
    /\ log' = Append(log, LogEntry("pop_events_until", "", pdim_start, <<>>))
    /\ UNCHANGED <<eq, initial_field, pdim_start, samplers, seq, events, results>>
    /\ UNCHANGED stepper_vars
    /\ UNCHANGED caller_vars

\* lines 201-204: the stepper generator and the check of the equation
CheckEquation ==
    /\ pc = "check"
    /\ LET checked == check_equation(eq)
       IN  IF checked.raised # "none"
           THEN /\ raised' = checked.raised
                /\ pc' = "raised"
           ELSE /\ pc' = "setup"
                /\ UNCHANGED raised
    /\ UNCHANGED <<eq, initial_field, pdim_start, samplers, seq, events, results, log>>
    /\ UNCHANGED stepper_vars
    /\ UNCHANGED caller_vars

\* a bug: a call with no sampler gets a sampler of the field at the start,
\* stored into the mapping that was passed (the default object when none was)
Setup_default_sampler ==
    /\ pc = "setup"
    /\ LET given == IF samplers = EmptyMap
                    THEN [key \in {"a"} |-> <<"sample_field", <<pdim_start>>>>]
                    ELSE samplers
           checked == check_equation(eq).value
           ufield == checked[1]
           pdimension == checked[2]
           sequences == [key \in DOMAIN given |-> given[key][2]]
           sched == Sequence(sequences)
           deriv_func == CallableExpr(eq.rhs, ufield, pdimension)
       IN  /\ samplers' = given
           /\ default_samplers' = IF by_default THEN given ELSE default_samplers
           /\ events' = pop_events(sched, pdim_start)
           /\ seq' = pop_rest(sched, pdim_start)
           /\ results' = [key \in DOMAIN given |-> [pvalue |-> <<>>, mean |-> <<>>]]
           /\ stepper' = initialize("RK4", IntegrateStep, pdim_start, initial_field,
                                    deriv_func)
    /\ log' = Append(log, LogEntry("pop_events_until", "", pdim_start, <<>>))
    /\ last_op' = "initialize"
    /\ pc' = "initial_sample"
    /\ UNCHANGED <<eq, initial_field, pdim_start, raised, ret, calls, nsteps>>
    /\ UNCHANGED <<by_default, called_before>>

\* lines 206-221: the scheduler, the events due at the start, the empty
\* results and the stepper
Setup ==
    /\ pc = "setup"
    /\ LET checked == check_equation(eq).value
           ufield == checked[1]
           pdimension == checked[2]
           sequences == [key \in DOMAIN samplers |-> samplers[key][2]]
           sched == Sequence(sequences)
           deriv_func == CallableExpr(eq.rhs, ufield, pdimension)
       IN  /\ events' = pop_events(sched, pdim_start)
           /\ seq' = pop_rest(sched, pdim_start)
           /\ results' = [key \in DOMAIN samplers |-> [pvalue |-> <<>>, mean |-> <<>>]]
           /\ stepper' = initialize("RK4", IntegrateStep, pdim_start, initial_field,
                                    deriv_func)
    /\ log' = Append(log, LogEntry("pop_events_until", "", pdim_start, <<>>))
    /\ last_op' = "initialize"
    /\ pc' = "initial_sample"
    /\ UNCHANGED <<eq, initial_field, pdim_start, raised, ret, calls, nsteps>>
    /\ UNCHANGED <<samplers, default_samplers, by_default, called_before>>

\* the effect of a call sample(results, stepper, ..., events) at line 223 or 240
Sample(next_pc) ==
    LET st == sample([results |-> results, log |-> log, raised |-> "none"], stepper, events)
    IN  /\ results' = st.results
        /\ log' = st.log
        /\ raised' = st.raised
        /\ pc' = IF st.raised # "none" THEN "raised" ELSE next_pc
        /\ UNCHANGED <<eq, initial_field, pdim_start, samplers, seq, events>>
        /\ UNCHANGED stepper_vars
        /\ UNCHANGED caller_vars
    /\ UNCHANGED caller_vars

\* line 223
InitialSample ==
    /\ pc = "initial_sample"
    /\ Sample("loop")

\* a bug: the loop ends as soon as one key has nothing pending
LoopTest_any ==
    /\ pc = "loop"
    /\ pc' = IF \E key \in DOMAIN seq : seq[key] = <<>> THEN "join" ELSE "step"
    /\ UNCHANGED <<eq, initial_field, pdim_start, samplers, seq, events, results, raised,
                   log>>
    /\ UNCHANGED stepper_vars
    /\ UNCHANGED caller_vars

\* lines 225-228
LoopTest ==
    /\ pc = "loop"
    /\ pc' = IF empty(seq) THEN "join" ELSE "step"
    /\ UNCHANGED <<eq, initial_field, pdim_start, samplers, seq, events, results, raised,
                   log>>
    /\ UNCHANGED stepper_vars
    /\ UNCHANGED caller_vars

\* a bug: the events of the step after the one taken are popped as well
LoopStep_ahead ==
    /\ pc = "step"
    /\ stepper' = step_of(stepper)
    /\ calls' = calls_of(stepper)
    /\ last_op' = "step"
    /\ nsteps' = nsteps + 1
    /\ events' = pop_events(seq, RAdd(stepper'.pdim, stepper'.step))
    /\ seq' = pop_rest(seq, RAdd(stepper'.pdim, stepper'.step))
    /\ log' = log \o <<LogEntry("step", "", stepper'.pdim, stepper'.field),
                       LogEntry("pop_events_until", "", stepper'.pdim, <<>>)>>
    /\ pc' = "sample"
    /\ UNCHANGED <<eq, initial_field, pdim_start, samplers, results, raised, ret>>
    /\ UNCHANGED caller_vars

\* lines 231-235
LoopStep ==
    /\ pc = "step"
    /\ stepper' = step_of(stepper)
    /\ calls' = calls_of(stepper)
    /\ last_op' = "step"
    /\ nsteps' = nsteps + 1
    /\ events' = pop_events(seq, stepper'.pdim)
    /\ seq' = pop_rest(seq, stepper'.pdim)
    /\ log' = log \o <<LogEntry("step", "", stepper'.pdim, stepper'.field),
                       LogEntry("pop_events_until", "", stepper'.pdim, <<>>)>>
    /\ pc' = "sample"
    /\ UNCHANGED <<eq, initial_field, pdim_start, samplers, results, raised, ret>>
    /\ UNCHANGED caller_vars

\* lines 237-240
LoopSample ==
    /\ pc = "sample"
    /\ Sample("loop")

\* join_fields of the result shaping: the samples of a key joined along the
\* propagation dimension at the recorded values
join_fields(mean, pdimension, pvalue) ==
    [pvalue |-> pvalue, mean |-> mean, dimension |-> pdimension]

\* lines 242-247
Join ==
    /\ pc = "join"
    /\ results' = [key \in DOMAIN results |->
                      join_fields(results[key].mean, check_equation(eq).value[2],
                                  results[key].pvalue)]
    /\ pc' = "returned"
    /\ UNCHANGED <<eq, initial_field, pdim_start, samplers, seq, events, raised, log>>
    /\ UNCHANGED stepper_vars
    /\ UNCHANGED caller_vars

\* integrate() has returned or raised and the caller is about to call it again:
\* the locals of the call are gone, the default object of samplers stays
Again ==
    /\ pc \in {"returned", "raised"}
    /\ pc' = "idle"
    /\ stepper' = NoStepper
    /\ last_op' = "none"
    /\ ret' = Return(<<>>) @@ [arg |-> R(0)]
    /\ calls' = <<>>
    /\ nsteps' = 0
    /\ eq' = NoEquation
    /\ initial_field' = <<>>
    /\ pdim_start' = R(0)
    /\ samplers' = EmptyMap
    /\ seq' = EmptyMap
    /\ events' = <<>>
    /\ results' = EmptyMap
    /\ raised' = "none"
    /\ log' = <<>>
    /\ by_default' = FALSE
    /\ called_before' = TRUE
    /\ UNCHANGED default_samplers

Next ==
    \/ Call
    \/ CheckEquation
    \/ Setup
    \/ InitialSample
    \/ LoopTest
    \/ LoopStep
    \/ LoopSample
    \/ Join
    \/ Again

Spec == Init /\ [][Next]_vars

Positions ==
    {"idle", "check", "setup", "initial_sample", "loop", "step", "sample", "join",
     "returned", "raised"}

\* a move of integrate() from one position to the next; every action of Next
\* is such a move, and one is possible at every position but the last two
Advance ==
    /\ pc \notin {"returned", "raised"}
    /\ pc' \in Positions \ {pc}

\* integrate() is one sequential function: once called it runs on until it has
\* returned or raised
FairSpec == Spec /\ WF_pc(Advance)

(***************************************************************************)
(* Properties.                                                             *)
(***************************************************************************)
Stepped == last_op = "step"

\* C1: after every step(), from any earlier state, pdim - pdim_prev equals
\* the configured step size exactly.
C1_StepAdvancesByStepSize ==
    Stepped => RSub(stepper.pdim, stepper.pdim_prev) = stepper.step

AfterInitialSample == pc \in {"loop", "step", "sample", "join", "returned"}

\* C2: with a right-hand side that is identically zero, every field recorded
\* for every key and every scheduled value equals the initial field.
C2_ZeroRhsConserves ==
    (eq.rhs = "zero" /\ AfterInitialSample) =>
        \A key \in DOMAIN results :
            \A i \in DOMAIN results[key].mean : results[key].mean[i] = initial_field

\* the due values of a key that are at or before the start
DueAtStart(key) ==
    {samplers[key][2][i] : i \in {j \in DOMAIN samplers[key][2] :
                                      RLe(samplers[key][2][j], pdim_start)}}

\* C3: every event due at or before pdim_start is popped and processed
\* (interpolated, sampled, appended to its key's results) before the first
\* step, and without failing.
C3_StartEventsProcessed ==
    (pc \notin {"idle", "check", "setup", "initial_sample"}
        /\ check_equation(eq).raised = "none") =>
        /\ ~(pc = "raised" /\ nsteps = 0)
        /\ \A key \in DOMAIN samplers :
              \A v \in DueAtStart(key) : \E i \in DOMAIN results[key].pvalue :
                  /\ results[key].pvalue[i] = v
                  /\ i \in DOMAIN results[key].mean

\* C4: in every state of either stepper, interpolate_at(pdim_prev) returns
\* field_prev and interpolate_at(pdim) returns field.
C4_InterpolationMatchesEndpoints ==
    /\ interpolate_at(stepper, stepper.pdim_prev) = Return(stepper.field_prev)
    /\ interpolate_at(stepper, stepper.pdim) = Return(stepper.field)

\* a state in which interpolate_at was asked for the current coordinate of an
\* RK4 stepper that has stepped twice and changed the field
C4_Witness ==
    /\ last_op = "interpolate_at"
    /\ stepper.kind = "RK4"
    /\ nsteps >= 2
    /\ stepper.field # stepper.field_prev
    /\ ret.arg = stepper.pdim
    /\ ret = Return(stepper.field) @@ [arg |-> stepper.pdim]

OutOfRange(s, p) == RLt(p, s.pdim_prev) \/ RLt(s.pdim, p)

\* C5: interpolate_at(p) with p before pdim_prev or after pdim fails (it
\* returns no value), and the failing call leaves the stepper as it was.
C5_OutOfRangeFails ==
    [][(last_op' = "interpolate_at" /\ OutOfRange(stepper, ret'.arg)) =>
          (ret'.raised = "AssertionError" /\ ret'.value = <<>> /\ stepper' = stepper)]_vars

\* an interpolation beyond the current coordinate of a stepper that has
\* stepped has failed
C5_Witness ==
    /\ last_op = "interpolate_at"
    /\ nsteps >= 1
    /\ RLt(stepper.pdim, ret.arg)
    /\ ret.raised = "AssertionError"

Terminated == pc \in {"returned", "raised"}

\* C6: the loop of integrate() is left exactly when the scheduler is empty:
\* never while a key has a due value pending, always at the loop test that
\* finds it empty; and with finite schedules and a positive step size
\* integrate() eventually ends.
C6_LoopEndsWhenSchedulerEmpty ==
    /\ [](pc \in {"join", "returned"} => empty(seq))
    /\ [][(pc = "loop" /\ empty(seq)) => pc' = "join"]_vars
    /\ [][(pc = "loop" /\ ~empty(seq)) => pc' = "step"]_vars
    /\ <>Terminated

\* integrate() has returned after two steps or more
C6_Witness ==
    /\ pc = "returned"
    /\ nsteps >= 2
    /\ empty(seq)

ValidationFailed == pc = "raised" /\ check_equation(eq).raised # "none"

\* C7: when the equation fails validation, integrate() raises before any
\* step of the stepper, any pop of the scheduler and any sampler call.
C7_ValidationFailsFirst ==
    ValidationFailed =>
        /\ nsteps = 0
        /\ log = <<>>
        /\ stepper = NoStepper
        /\ seq = EmptyMap
        /\ results = EmptyMap

\* validation has failed in a call whose samplers have an event due at the start
C7_Witness ==
    /\ ValidationFailed
    /\ \E key \in DOMAIN samplers : DueAtStart(key) # {}

\* (a) the left side is a Differential of an UnknownField with respect to a
\* PropagationDimension
WellFormedLhs(e) ==
    /\ e.lhs.node = "Differential"
    /\ Len(e.lhs.args) = 2
    /\ class(e.lhs.args[1]) = "UnknownField"
    /\ class(e.lhs.args[2]) = "PropagationDimension"

\* (b) the right side references a propagation dimension other than the left side's
ForeignPropagation(e) ==
    class(e.rhs) = "PropagationDimension" /\ e.rhs # e.lhs.args[2]

\* (c) the right side references a transverse dimension the unknown field lacks
AbsentTransverse(e) ==
    /\ class(e.rhs) = "TransverseDimension"
    /\ \A i \in DOMAIN dimensions(e.lhs.args[1]) : dimensions(e.lhs.args[1])[i] # e.rhs

Violates(e) == ~WellFormedLhs(e) \/ ForeignPropagation(e) \/ AbsentTransverse(e)

\* C8: check_equation raises for every equation with (a) a malformed left
\* side, (b) a foreign propagation dimension or (c) an absent transverse
\* dimension on the right side, and returns (field, pdimension, used
\* variables) for every other equation.
C8_CheckEquationRejects ==
    pc \notin {"idle", "check"} =>
        IF Violates(eq)
        THEN /\ check_equation(eq).raised # "none"
             /\ pc = "raised" /\ raised # "none" /\ log = <<>>
        ELSE /\ check_equation(eq) =
                    Return(<<eq.lhs.args[1], eq.lhs.args[2], used_variables(eq.rhs)>>)
             /\ pc = "setup" \/ log # <<>>

\* an equation with a well-formed left side was rejected for a transverse
\* dimension its unknown field lacks
C8_Witness ==
    /\ pc = "raised"
    /\ WellFormedLhs(eq)
    /\ AbsentTransverse(eq)

\* C9: a malformed left side fails with MalformedEquationError, a right side
\* with a foreign propagation dimension or an absent transverse dimension
\* with DimensionMismatchError.
C9_DistinctErrorKinds ==
    ValidationFailed =>
        raised = IF ~WellFormedLhs(eq) THEN "MalformedEquationError"
                                       ELSE "DimensionMismatchError"

\* the number of times the sampler of key was called for the value v
TimesSampled(key, v) ==
    Cardinality({i \in DOMAIN log :
                    log[i].op = "sampler" /\ log[i].key = key /\ log[i].pdim = v})

\* C10: in a completed run every scheduled (key, value) pair is sampled
\* exactly once: the values recorded for a key are the key's due-value
\* sequence, none twice and none skipped.
C10_EveryPairSampledOnce ==
    pc = "returned" =>
        /\ DOMAIN results = DOMAIN samplers
        /\ \A key \in DOMAIN samplers :
              /\ results[key].pvalue = samplers[key][2]
              /\ Len(results[key].mean) = Len(results[key].pvalue)
              /\ \A i \in DOMAIN samplers[key][2] :
                    TimesSampled(key, samplers[key][2][i]) = 1

\* a completed run of two keys that share a due value, one of them due at
\* the start as well as in the loop
C10_Witness ==
    /\ pc = "returned"
    /\ DOMAIN samplers = Keys
    /\ nsteps >= 2
    /\ \E key \in Keys : Len(samplers[key][2]) = 2 /\ samplers[key][2][1] = pdim_start
    /\ \E v \in DueValues : \A key \in Keys : v \in Range(samplers[key][2])

\* the positions in the log of the interpolations at the value v
InterpolationsAt(v) ==
    {i \in DOMAIN log : log[i].op = "interpolate_at" /\ log[i].pdim = v}

\* the positions in the log of the sampler calls for the value v
SamplerCallsAt(v) ==
    {i \in DOMAIN log : log[i].op = "sampler" /\ log[i].pdim = v}

SampledForAllKeys(v) ==
    /\ DOMAIN samplers = Keys
    /\ \A key \in Keys : TimesSampled(key, v) >= 1

\* C11: two keys due at the same value are processed as one group: the
\* stepper is interpolated once for the value, and both samplers are called
\* with that one interpolated field and the same value.
C11_SharedValueOneGroup ==
    \A v \in DueValues :
        SampledForAllKeys(v) =>
            /\ Cardinality(InterpolationsAt(v)) = 1
            /\ \A i \in InterpolationsAt(v) : \A j \in SamplerCallsAt(v) :
                  /\ i < j
                  /\ log[j].field = log[i].field
            /\ \A j \in SamplerCallsAt(v) : \A k \in SamplerCallsAt(v) :
                  (j < k) => \A m \in j..k : log[m].op = "sampler" /\ log[m].pdim = v

\* a completed run in which both keys were sampled at a value inside a step
C11_Witness ==
    /\ pc = "returned"
    /\ \E v \in DueValues :
          /\ SampledForAllKeys(v)
          /\ RLt(pdim_start, v)
          /\ Cardinality(SamplerCallsAt(v)) = 2

HasStepper == stepper.kind \in {"Euler", "RK4"}

\* C12: a stepper initialized at pdim_start with the initial field has, before
\* any step(), pdim_prev = pdim = pdim_start and field_prev = field = the
\* initial field, and interpolate_at(pdim_start) returns the initial field;
\* with a positive step size pdim_prev = pdim only while no step was taken.
C12_InitialStepperState ==
    HasStepper =>
        /\ nsteps = 0 =>
              /\ stepper.pdim_prev = pdim_start
              /\ stepper.pdim = pdim_start
              /\ stepper.field_prev = initial_field
              /\ stepper.field = initial_field
              /\ interpolate_at(stepper, pdim_start) = Return(initial_field)
        /\ (RLt(R(0), stepper.step) /\ stepper.pdim_prev = stepper.pdim) => nsteps = 0

\* a stepper started away from 0 with a field that is not zero was asked, before
\* any step, for the field at its start
C12_Witness ==
    /\ HasStepper
    /\ nsteps = 0
    /\ pdim_start = R(1)
    /\ initial_field = <<R(1), R(2)>>
    /\ last_op = "interpolate_at"
    /\ ret = Return(initial_field) @@ [arg |-> pdim_start]

InCall == pc # "idle"

\* what a call without samplers does: nothing is stepped, popped into an event
\* or sampled, and an empty mapping is returned
EmptyRun ==
    /\ samplers = EmptyMap
    /\ nsteps = 0
    /\ \A i \in DOMAIN log : log[i].op \notin {"sampler", "interpolate_at", "step"}
    /\ events = <<>>
    /\ results = EmptyMap
    /\ pc \notin {"step", "sample"}

\* C13: integrate() changes neither the mapping it is given nor the shared
\* default of samplers, so every call without samplers, whatever was called
\* before, sees an empty mapping, takes no step, calls no sampler and returns
\* an empty mapping.
C13_DefaultSamplersStayEmpty ==
    /\ [][default_samplers' = default_samplers]_vars
    /\ [][(InCall /\ pc' # "idle") => samplers' = samplers]_vars
    /\ []((InCall /\ by_default) => EmptyRun)

\* a call without samplers has returned, after an earlier call
C13_Witness ==
    /\ called_before
    /\ by_default
    /\ pc = "returned"
    /\ results = EmptyMap

\* the derivative function of the stepper s at (field, pdim)
Deriv(s, field_, p) == call(s.func, field_, p)

\* C14: a step() of the Euler stepper from (pdim, field) = (p, F) installs
\* field' = F + h * f(F, p), field_prev' = F and pdim' = p + h, and calls the
\* derivative function exactly once, at (F, p).
C14_EulerStep ==
    [][(last_op' = "step" /\ stepper.kind = "Euler") =>
          LET F == stepper.field
              p == stepper.pdim
              h == stepper.step
          IN  /\ stepper'.field = VAdd(F, VScale(h, Deriv(stepper, F, p)))
              /\ stepper'.field_prev = F
              /\ stepper'.pdim = RAdd(p, h)
              /\ calls' = << <<F, p>> >>]_vars

\* the Euler stepper has taken a second step with a derivative that depends on
\* the coordinate
C14_Witness ==
    /\ last_op = "step"
    /\ stepper.kind = "Euler"
    /\ stepper.func.expr = "p"
    /\ stepper.step = R(2)
    /\ nsteps = 2

\* C15: a step() of the RK4 stepper from (pdim, field) = (p, F) calls the
\* derivative function exactly four times, at (F, p), (F + k1/2, p + h/2),
\* (F + k2/2, p + h/2) and (F + k3, p + h), and installs
\* field' = F + k1/6 + k2/3 + k3/3 + k4/6, field_prev' = F, pdim' = p + h.
C15_RK4Step ==
    [][(last_op' = "step" /\ stepper.kind = "RK4") =>
          LET F == stepper.field
              p == stepper.pdim
              h == stepper.step
              half == RDiv(h, R(2))
              k1 == VScale(h, Deriv(stepper, F, p))
              k2 == VScale(h, Deriv(stepper, VAdd(F, VDivInt(k1, 2)), RAdd(p, half)))
              k3 == VScale(h, Deriv(stepper, VAdd(F, VDivInt(k2, 2)), RAdd(p, half)))
              k4 == VScale(h, Deriv(stepper, VAdd(F, k3), RAdd(p, h)))
          IN  /\ calls' = << <<F, p>>,
                             <<VAdd(F, VDivInt(k1, 2)), RAdd(p, half)>>,
                             <<VAdd(F, VDivInt(k2, 2)), RAdd(p, half)>>,
                             <<VAdd(F, k3), RAdd(p, h)>> >>
              /\ stepper'.field =
                    VAdd(VAdd(VAdd(VAdd(F, VDivInt(k1, 6)), VDivInt(k2, 3)),
                              VDivInt(k3, 3)), VDivInt(k4, 6))
              /\ stepper'.field_prev = F
              /\ stepper'.pdim = RAdd(p, h)]_vars

\* the RK4 stepper has taken a second step with a derivative that depends on
\* the field
C15_Witness ==
    /\ last_op = "step"
    /\ stepper.kind = "RK4"
    /\ stepper.func.expr = "F"
    /\ stepper.step = R(2)
    /\ stepper.field # stepper.field_prev
    /\ Len(calls) = 4
    /\ nsteps = 2

\* the constant derivative of the stepper s, when its right-hand side has one
ConstantRhs == {"zero", "one", "x"}
ConstantDeriv(s) == call(s.func, s.field, s.pdim)

\* C16: for the Euler stepper driven by a constant derivative c from
\* (pdim_start, F0), after one step or more interpolate_at(p) returns
\* F0 + c * (p - pdim_start) for every p within the step taken last,
\* [pdim - h, pdim].
C16_EulerInterpolatesLinearly ==
    (/\ last_op = "interpolate_at"
     /\ stepper.kind = "Euler"
     /\ stepper.func.expr \in ConstantRhs
     /\ nsteps >= 1
     /\ RLe(RSub(stepper.pdim, stepper.step), ret.arg)
     /\ RLe(ret.arg, stepper.pdim)) =>
        /\ ret.raised = "none"
        /\ ret.value = VAdd(initial_field,
                            VScale(RSub(ret.arg, pdim_start), ConstantDeriv(stepper)))

\* C17: with a step size that is not negative, pdim_prev <= pdim in every
\* state of a stepper, whatever step() and interpolate_at() calls were made.
C17_PrevNotAfterCurrent ==
    (HasStepper /\ RLe(R(0), stepper.step)) => RLe(stepper.pdim_prev, stepper.pdim)

\* a stepper with a positive step size after steps and an interpolation
C17_Witness ==
    /\ HasStepper
    /\ stepper.step = R(2)
    /\ nsteps >= 2
    /\ last_op = "interpolate_at"
    /\ RLt(stepper.pdim_prev, stepper.pdim)

\* the snapshots the steps of the run produced, the field of the start first
StepLog ==
    LET is_step(e) == e.op = "step"
    IN  <<LogEntry("step", "", pdim_start, initial_field)>> \o SelectSeq(log, is_step)

AllDueFromStart ==
    \A key \in DOMAIN samplers :
        \A i \in DOMAIN samplers[key][2] : RLe(pdim_start, samplers[key][2][i])

\* C18: in the loop of integrate() every event processed after a step is due
\* inside the step just taken, pdim - h < value <= pdim; the stepper holds
\* the two snapshots computed at pdim - h and at pdim, between which the
\* sample is interpolated; interpolate_at is called inside its precondition,
\* and it never fails when every due value is at or after pdim_start.
C18_EventsInsideLastStep ==
    /\ pc = "sample" =>
          /\ \A i \in DOMAIN events :
                /\ RLt(RSub(stepper.pdim, stepper.step), events[i][1])
                /\ RLe(events[i][1], stepper.pdim)
                /\ InRange(stepper, events[i][1])
          /\ LET n == Len(StepLog)
             IN  /\ n = nsteps + 1
                 /\ StepLog[n].field = stepper.field
                 /\ StepLog[n].pdim = stepper.pdim
                 /\ StepLog[n - 1].field = stepper.field_prev
                 /\ StepLog[n - 1].pdim = RSub(stepper.pdim, stepper.step)
    /\ (pc = "raised" /\ HasStepper) => ~AllDueFromStart

\* the second step has been taken and an event is due inside it
C18_Witness ==
    /\ pc = "sample"
    /\ nsteps = 2
    /\ Len(events) >= 1
    /\ AllDueFromStart
    /\ stepper.field # stepper.field_prev

\* the sampler calls made for key, in the order they were made
SamplerLog(key) ==
    LET is_call(e) == e.op = "sampler" /\ e.key = key
    IN  SelectSeq(log, is_call)

StrictlyAscending(s) == \A i \in 1..(Len(s) - 1) : RLt(s[i], s[i + 1])

\* C19: at every boundary between loop iterations of integrate() and at its
\* end, for each key the recorded values of the propagation dimension and
\* the recorded samples have the same length, entry i of both comes from
\* the i-th sampler call for the key, and the recorded values are strictly
\* ascending when the schedule supplied for the key is strictly increasing.
C19_ParallelResultLists ==
    pc \in {"loop", "join", "returned"} =>
        \A key \in DOMAIN results :
            LET pvalue == results[key].pvalue
                mean == results[key].mean
            IN  /\ Len(pvalue) = Len(mean)
                /\ Len(SamplerLog(key)) = Len(pvalue)
                /\ \A i \in DOMAIN pvalue :
                      /\ pvalue[i] = SamplerLog(key)[i].pdim
                      /\ mean[i] = sample_field(SamplerLog(key)[i].field, pvalue[i])
                /\ StrictlyAscending(samplers[key][2]) => StrictlyAscending(pvalue)

\* a loop boundary after a step, with two values recorded for a key that
\* were sampled in different iterations
C19_Witness ==
    /\ pc = "loop"
    /\ nsteps >= 1
    /\ \E key \in DOMAIN results :
          /\ Len(results[key].pvalue) = 2
          /\ results[key].mean[1] # results[key].mean[2]

(***************************************************************************)
(* The propagation coordinate of an integrate() run in the arithmetic of   *)
(* the program.  pdim, the step size and the due values are binary64       *)
(* numbers; one below 1/2 that is a multiple of 2^-58 is written           *)
(* <<hi, lo>> and stands for (hi * 2^28 + lo) * 2^-58.  The field takes no *)
(* part in pdim nor in the scheduler and is left out.                      *)
(***************************************************************************)
MaxFloatSteps == 14

Limb == 2^28

\* the sum of two numbers as a real number
real_add(a, b) ==
    LET lo == a[2] + b[2]
    IN  <<a[1] + b[1] + (lo \div Limb), lo % Limb>>

real_le(a, b) == a[1] < b[1] \/ (a[1] = b[1] /\ a[2] <= b[2])

real_lt(a, b) == ~real_le(b, a)

\* the spacing of the binary64 numbers at a: 53 significant bits
ulp(a) ==
    IF a[1] < 2^25 THEN 1
    ELSE IF a[1] < 2^26 THEN 2
    ELSE IF a[1] < 2^27 THEN 4
    ELSE IF a[1] < 2^28 THEN 8
    ELSE 16

\* the binary64 number nearest to a, the even one of two equally near
round_to_float(a) ==
    LET u == ulp(a)
        r == a[2] % u
        down == a[2] - r
        up == down + u
        nearest == IF 2 * r > u \/ (2 * r = u /\ (down \div u) % 2 = 1) THEN up ELSE down
    IN  IF nearest = Limb THEN <<a[1] + 1, 0>> ELSE <<a[1], nearest>>

\* a + b of two floats
float_add(a, b) == round_to_float(real_add(a, b))

FloatZero == <<0, 0>>

\* step=0.02
FloatStep == <<21474836, 128849019>>

\* the floats 0.0 and 0.02, 0.03, ... 0.24 as due values
FloatDueValues ==
    {FloatZero,
     <<21474836, 128849019>>, <<32212254, 193273528>>, <<42949672, 257698038>>, <<53687091, 53687092>>,
     <<64424509, 118111600>>, <<75161927, 182536112>>, <<85899345, 246960620>>, <<96636764, 42949672>>,
     <<107374182, 107374184>>, <<118111600, 171798692>>, <<128849018, 236223200>>, <<139586437, 32212256>>,
     <<150323855, 96636768>>, <<161061273, 161061272>>, <<171798691, 225485784>>, <<182536110, 21474840>>,
     <<193273528, 85899344>>, <<204010946, 150323856>>, <<214748364, 214748368>>, <<225485783, 10737416>>,
     <<236223201, 75161928>>, <<246960619, 139586440>>, <<257698037, 204010944>>}

\* the strictly increasing due-value sequences of one key
FloatSchedules ==
    {s \in UNION {[1..n -> FloatDueValues] : n \in 0..MaxLen} :
        \A i \in 1..(Len(s) - 1) : real_lt(s[i], s[i + 1])}

\* pop_events_until(p) for a single key: the due values popped and those left
float_pop_events(pending, p) ==
    LET due(v) == real_le(v, p)
    IN  SelectSeq(pending, due)

float_pop_rest(pending, p) ==
    LET keep(v) == ~real_le(v, p)
    IN  SelectSeq(pending, keep)

FloatStepper(pdim) ==
    [NoStepper EXCEPT !.kind = "RK4", !.step = FloatStep, !.pdim = pdim,
                      !.pdim_prev = FloatZero]

\* integrate(equation, initial_field, 0.0, {"a": (sample_field, schedule)})
\* past the check of the equation
FloatInit ==
    /\ \E schedule \in FloatSchedules :
          samplers = [key \in {"a"} |-> <<"sample_field", schedule>>]
    /\ stepper = NoStepper
    /\ last_op = "none"
    /\ ret = Return(<<>>) @@ [arg |-> R(0)]
    /\ calls = <<>>
    /\ nsteps = 0
    /\ pc = "setup"
    /\ eq = NoEquation
    /\ initial_field = <<>>
    /\ pdim_start = FloatZero
    /\ seq = EmptyMap
    /\ events = <<>>
    /\ results = EmptyMap
    /\ raised = "none"
    /\ log = <<>>
    /\ default_samplers = EmptyMap
    /\ by_default = FALSE
    /\ called_before = FALSE

\* lines 206-221
FloatSetup ==
    /\ pc = "setup"
    /\ events' = float_pop_events(samplers["a"][2], pdim_start)
    /\ seq' = [key \in {"a"} |-> float_pop_rest(samplers["a"][2], pdim_start)]
    /\ results' = [key \in {"a"} |-> [pvalue |-> <<>>]]
    /\ stepper' = FloatStepper(pdim_start)
    /\ last_op' = "initialize"
    /\ pc' = "initial_sample"
    /\ UNCHANGED <<ret, calls, nsteps, eq, initial_field, pdim_start, samplers, raised, log>>
    /\ UNCHANGED caller_vars

\* lines 223 and 237-240: the due values of the events are recorded
FloatSample ==
    /\ pc \in {"initial_sample", "sample"}
    /\ results' = [results EXCEPT !["a"].pvalue = @ \o events]
    /\ pc' = "loop"
    /\ UNCHANGED <<eq, initial_field, pdim_start, samplers, seq, events, raised, log>>
    /\ UNCHANGED stepper_vars
    /\ UNCHANGED caller_vars

\* lines 225-228
FloatLoopTest ==
    /\ pc = "loop"
    /\ pc' = IF seq["a"] = <<>> THEN "join" ELSE "step"
    /\ UNCHANGED <<eq, initial_field, pdim_start, samplers, seq, events, results, raised,
                   log>>
    /\ UNCHANGED stepper_vars
    /\ UNCHANGED caller_vars

\* lines 231-235: pdim += step, then the events due by the new pdim
FloatLoopStep ==
    /\ pc = "step"
    /\ nsteps < MaxFloatSteps
    /\ stepper' = [stepper EXCEPT !.pdim = float_add(stepper.pdim, stepper.step)]
    /\ last_op' = "step"
    /\ nsteps' = nsteps + 1
    /\ events' = float_pop_events(seq["a"], stepper'.pdim)
    /\ seq' = [seq EXCEPT !["a"] = float_pop_rest(seq["a"], stepper'.pdim)]
    /\ pc' = "sample"
    /\ UNCHANGED <<ret, calls, eq, initial_field, pdim_start, samplers, results, raised, log>>
    /\ UNCHANGED caller_vars

\* lines 242-247
FloatJoin ==
    /\ pc = "join"
    /\ pc' = "returned"
    /\ UNCHANGED <<eq, initial_field, pdim_start, samplers, seq, events, results, raised,
                   log>>
    /\ UNCHANGED stepper_vars
    /\ UNCHANGED caller_vars

NextFloat ==
    \/ FloatSetup
    \/ FloatSample
    \/ FloatLoopTest
    \/ FloatLoopStep
    \/ FloatJoin

FloatSpec == FloatInit /\ [][NextFloat]_vars

\* pdim_start + n * step as a real number
RECURSIVE AfterSteps(_)
AfterSteps(n) == IF n = 0 THEN pdim_start ELSE real_add(AfterSteps(n - 1), FloatStep)

\* the largest due value of the run
LargestDue == samplers["a"][2][Len(samplers["a"][2])]

\* the least n >= 0 with pdim_start + n * step >= P
LeastSteps(P) ==
    CHOOSE n \in 0..MaxFloatSteps :
        /\ real_le(P, AfterSteps(n))
        /\ \A m \in 0..(n - 1) : ~real_le(P, AfterSteps(m))

\* C20: integrate() takes the least number of steps that drains the
\* schedules: with the largest due value P the number of step() calls is the
\* least n >= 0 with pdim_start + n * step >= P, none when no value is due
\* after pdim_start, and the stepper ends less than one step past P.
C20_MinimalNumberOfSteps ==
    (pc = "returned" /\ samplers["a"][2] # <<>>) =>
        /\ nsteps = LeastSteps(LargestDue)
        /\ nsteps >= 1 => real_lt(stepper.pdim, real_add(LargestDue, FloatStep))

====
